---- MODULE Spec2Model ----
(***************************************************************************)
(* Runtime borrow checking of hecs (src/src/borrow.rs): the AtomicBorrow   *)
(* counter word, the Ref / RefMut handles built on it and the EntityRef    *)
(* view, with threads interleaving at the granularity of single atomic     *)
(* operations on the counter word.                                         *)
(***************************************************************************)
EXTENDS Integers, Sequences, FiniteSets, TLC

\* Width of the counter word in bits (usize in the source): arithmetic on the
\* word is modulo 2^Width.
Width == 3

\* Number of threads.
NThreads == 3

\* Most grants the counter-level clients keep outstanding at once.
MaxGrants == 4

\* Most handles (Ref, RefMut) alive at once.
MaxHandles == 2

\* Most releases of a grant the caller does not hold, over a run: those made
\* directly, and those a handle built without a grant (on a refused acquire,
\* or as a copy) makes when it is dropped.
MaxUnheld == 2

(***************************************************************************)
(* The counter word                                                        *)
(***************************************************************************)

WordMod == 2 ^ Width

\* const UNIQUE_BIT: usize = !(usize::max_value() >> 1): the high bit alone.
UNIQUE_BIT == 2 ^ (Width - 1)

\* usize::wrapping_add / the wrapping of fetch_add.
wrapping_add(x, n) == (x + n) % WordMod

\* A fetch_sub that takes nothing off (a slip, used to see that properties
\* depend on the subtraction):
wrapping_sub_noop(x, n) == x

\* the wrapping of fetch_sub.
wrapping_sub(x, n) == (x + WordMod - n) % WordMod

\* value & UNIQUE_BIT != 0
HasUniqueBit(value) == (value \div UNIQUE_BIT) % 2 = 1

\* value & !UNIQUE_BIT, the word fetch_and(!UNIQUE_BIT) stores.
ClearUniqueBit(value) == IF HasUniqueBit(value) THEN value - UNIQUE_BIT ELSE value

(***************************************************************************)
(* AtomicBorrow: what each method computes and decides                     *)
(***************************************************************************)

\* Slips the code could have made, used to see that the properties below
\* depend on the decisions that follow.
\* borrow treating any other holder as a conflict:
borrow_conflict_any_holder(value) == value # 1
\* borrow never seeing a conflict:
borrow_conflict_never(value) == FALSE
\* borrow_mut succeeding whenever the exclusive flag is clear:
borrow_mut_ok_flag_only(w) == ~HasUniqueBit(w)
\* borrow_mut whose compare_exchange never stores:
borrow_mut_ok_never(w) == FALSE
\* borrow_mut swapping the flag in unconditionally:
borrow_mut_ok_always(w) == TRUE
\* release_mut storing 0 instead of clearing the flag:
release_mut_word_store_zero(w) == 0
\* release asserting only that the value was nonzero:
release_check_nonzero_only(value) == value # 0
\* Ref::new / RefMut::new building the handle only on a grant:
Ref_new_gated(granted) == granted
\* release leaving the word as it was:
release_word_keep(w) == w

\* borrow: let value = self.0.fetch_add(1, Acquire).wrapping_add(1)
borrow_value(w) == wrapping_add(w, 1)

\* borrow: if value == 0 { panic!() }
borrow_wrapped(value) == value = 0

\* borrow: if value & UNIQUE_BIT != 0 { fetch_sub(1); false } else { true }
borrow_conflict(value) == HasUniqueBit(value)

\* borrow_mut: compare_exchange(0, UNIQUE_BIT, ..).is_ok()
borrow_mut_ok(w) == w = 0

\* borrow_mut: the word the compare_exchange leaves.
borrow_mut_word(w) == IF borrow_mut_ok(w) THEN UNIQUE_BIT ELSE w

\* release: self.0.fetch_sub(1, Release)
release_word(w) == wrapping_sub(w, 1)

\* release: the two debug_assert!s on the value fetch_sub returned.
release_check(value) == value # 0 /\ ~HasUniqueBit(value)

\* release_mut: self.0.fetch_and(!UNIQUE_BIT, Release)
release_mut_word(w) == ClearUniqueBit(w)

\* release_mut: debug_assert_ne!(value & UNIQUE_BIT, 0)
release_mut_check(value) == HasUniqueBit(value)

(***************************************************************************)
(* The owning group (Archetype), as the handles and the view consume it    *)
(***************************************************************************)

\* arch.types(): the component types resident in the group, in registration order.
ArchTypes == <<"A", "B">>

ArchTypeSet == {ArchTypes[i] : i \in 1 .. Len(ArchTypes)}

\* Component types a caller may ask for; "V" has no column in the group.
ReqTypes == ArchTypeSet \cup {"V"}

\* archetype.get_base::<T>() is Some: the group has a column for T.
get_base_some(ty) == ty \in ArchTypeSet

\* archetype.borrow::<T>() / borrow_mut::<T>() delegate to the counter of T and
\* hand back the grant outcome: they return whether or not the grant was obtained.
\* (The doc comments of EntityRef::get / get_mut speak of a panic on a refusal;
\* the group as the handles consume it returns the outcome and never ends a
\* call abruptly on a refusal, and that is what is modelled.)
archetype_acquire_returns(granted) == TRUE

\* Ref::new / RefMut::new: `archetype.borrow::<T>(); Ok(Self { archetype, target })`
\* the outcome of the acquire is dropped and the handle is built.
Ref_new_ok(granted) == TRUE

\* ty.id(): the TypeId of a resident type.
id(ty) == <<"TypeId", ty>>

\* The views: EntityRef::empty() and EntityRef::new(archetype, index).
Views == {[arch |-> FALSE, index |-> 0],
          [arch |-> TRUE, index |-> 2],
          [arch |-> TRUE, index |-> 5]}

(***************************************************************************)
(* State                                                                   *)
(***************************************************************************)

VARIABLES
    debug,     \* cfg(debug_assertions): the debug_assert!s are compiled in
    word,      \* word[ty]: the AtomicUsize of the counter of (group, ty)
    inflight,  \* inflight[c]: threads inside the borrow() of call c, after its
               \* fetch_add and before its fetch_sub
    panicked,  \* threads that panicked
    held,      \* held[k]: grants / handles outstanding of kind k
    unheld,    \* releases issued so far by callers that held no grant, and
               \* handles built so far without a grant
    last       \* the last atomic step taken and what it saw

vars == <<debug, word, inflight, panicked, held, unheld, last>>

\* What is outstanding on one type's counter: shared ("sh": a borrow() that
\* returned true and was not released yet, a Ref that was not dropped yet) or
\* exclusive ("ex": the same for borrow_mut() and RefMut).
Keys == [kind : {"sh", "ex"}, ty : ArchTypeSet]

Key(kind, ty) == [kind |-> kind, ty |-> ty]

\* A borrow() under way: called directly (op "borrow", slot 0) or by Ref::new
\* for get() on the view of a slot (op "get").
Calls == [ty : ArchTypeSet, op : {"borrow"}, slot : {0}]
             \cup [ty : ArchTypeSet, op : {"get"}, slot : {v.index : v \in {w \in Views : w.arch}}]

Call(ty, op, slot) == [ty |-> ty, op |-> op, slot |-> slot]

RECURSIVE SumOver(_, _)
SumOver(f, S) ==
    IF S = {} THEN 0
    ELSE LET k == CHOOSE x \in S : TRUE IN f[k] + SumOver(f, S \ {k})

HeldTotal == SumOver(held, Keys)

\* Threads inside borrow() of ty's counter: incremented, not yet decremented back.
InFlight(ty) == SumOver(inflight, {c \in Calls : c.ty = ty})

InFlightAll == SumOver(inflight, Calls)

\* Threads free to start a call.
Idle == NThreads - InFlightAll - panicked

\* No handle was made by the step before.
NoMade == [kind |-> "-", slot |-> 0, words |-> [ty \in ArchTypeSet |-> 0]]

\* The step l was a get() / get_mut() that returned a handle on a grant that
\* was obtained: borrow() returned true at once, the compare_exchange stored.
MadeOnGrant(l) ==
    \/ l.op = "get" /\ l.step = "fetch_add" /\ l.ret = "Some"
    \/ l.op = "get_mut" /\ l.step = "cas" /\ l.ret = "Some" /\ l.pre = 0

\* What a step records: the call (op) and the atomic operation (step), the
\* counter word it read (pre) and all the counter words before it (words), what
\* the call returned ("pending" when the call is not over; ids: the sequence
\* component_types yielded), and the grants or handles outstanding and the
\* borrow()s in flight on that counter just before the step. For a get(),
\* get_mut() or drop, made tells of the handle that the step right before made
\* on an obtained grant of the same counter: its kind, the slot of its view and
\* the counter words before it was made.
Seen(op, step, ty, slot, ret) ==
    [op |-> op, step |-> step, ty |-> ty, slot |-> slot, ret |-> ret, ids |-> <<>>,
     pre |-> IF ty \in ArchTypeSet THEN word[ty] ELSE 0,
     words |-> word,
     shOut |-> IF ty \in ArchTypeSet THEN held[Key("sh", ty)] ELSE 0,
     exOut |-> IF ty \in ArchTypeSet THEN held[Key("ex", ty)] ELSE 0,
     fl |-> IF ty \in ArchTypeSet THEN InFlight(ty) ELSE 0,
     made |-> IF /\ op \in {"get", "get_mut", "drop_ref", "drop_refmut"}
                 /\ last.ty = ty
                 /\ MadeOnGrant(last)
              THEN [kind |-> IF last.op = "get" THEN "sh" ELSE "ex",
                    slot |-> last.slot, words |-> last.words]
              ELSE NoMade]

Add(k) == held' = [held EXCEPT ![k] = @ + 1]

Remove(k) == held' = [held EXCEPT ![k] = @ - 1]

Init ==
    /\ debug \in BOOLEAN
    /\ word = [ty \in ArchTypeSet |-> 0]
    /\ inflight = [c \in Calls |-> 0]
    /\ panicked = 0
    /\ held = [k \in Keys |-> 0]
    /\ unheld = 0
    /\ last = [op |-> "new", step |-> "none", ty |-> "-", slot |-> 0, ret |-> "unit",
               ids |-> <<>>, pre |-> 0, words |-> [ty \in ArchTypeSet |-> 0],
               shOut |-> 0, exOut |-> 0, fl |-> 0, made |-> NoMade]

(***************************************************************************)
(* AtomicBorrow, called directly                                           *)
(***************************************************************************)

\* borrow(), its fetch_add: the call is over at once when the value wrapped
\* (panic) or shows no conflict (true); otherwise the fetch_sub is still to come.
Borrow(ty) ==
    /\ Idle > 0
    /\ HeldTotal + InFlightAll < MaxGrants
    /\ LET value == borrow_value(word[ty]) IN
        /\ word' = [word EXCEPT ![ty] = value]
        /\ IF borrow_wrapped(value)
           THEN /\ panicked' = panicked + 1
                /\ last' = Seen("borrow", "fetch_add", ty, 0, "panic")
                /\ UNCHANGED <<inflight, held>>
           ELSE IF borrow_conflict(value)
           THEN /\ inflight' = [inflight EXCEPT ![Call(ty, "borrow", 0)] = @ + 1]
                /\ last' = Seen("borrow", "fetch_add", ty, 0, "pending")
                /\ UNCHANGED <<panicked, held>>
           ELSE /\ Add(Key("sh", ty))
                /\ last' = Seen("borrow", "fetch_add", ty, 0, "true")
                /\ UNCHANGED <<inflight, panicked>>
    /\ UNCHANGED <<debug, unheld>>

\* borrow(), the conflicting path: self.0.fetch_sub(1, Release); false
BorrowUndo(ty) ==
    /\ inflight[Call(ty, "borrow", 0)] > 0
    /\ word' = [word EXCEPT ![ty] = wrapping_sub(@, 1)]
    /\ last' = Seen("borrow", "fetch_sub", ty, 0, "false")
    /\ inflight' = [inflight EXCEPT ![Call(ty, "borrow", 0)] = @ - 1]
    /\ UNCHANGED <<debug, panicked, held, unheld>>

\* borrow_mut(): one compare_exchange.
BorrowMut(ty) ==
    /\ Idle > 0
    /\ HeldTotal + InFlightAll < MaxGrants
    /\ word' = [word EXCEPT ![ty] = borrow_mut_word(@)]
    /\ IF borrow_mut_ok(word[ty])
       THEN /\ Add(Key("ex", ty))
            /\ last' = Seen("borrow_mut", "cas", ty, 0, "true")
       ELSE /\ last' = Seen("borrow_mut", "cas", ty, 0, "false")
            /\ UNCHANGED held
    /\ UNCHANGED <<debug, inflight, panicked, unheld>>

\* release(): the fetch_sub, then the debug_assert!s on the value it returned.
ReleaseStep(op, ty) ==
    /\ Idle > 0
    /\ word' = [word EXCEPT ![ty] = release_word(@)]
    /\ IF debug /\ ~release_check(word[ty])
       THEN /\ panicked' = panicked + 1
            /\ last' = Seen(op, "fetch_sub", ty, 0, "panic")
       ELSE /\ last' = Seen(op, "fetch_sub", ty, 0, "unit")
            /\ UNCHANGED panicked
    /\ UNCHANGED <<debug, inflight>>

\* release_mut(): the fetch_and, then the debug_assert_ne!.
ReleaseMutStep(op, ty) ==
    /\ Idle > 0
    /\ word' = [word EXCEPT ![ty] = release_mut_word(@)]
    /\ IF debug /\ ~release_mut_check(word[ty])
       THEN /\ panicked' = panicked + 1
            /\ last' = Seen(op, "fetch_and", ty, 0, "panic")
       ELSE /\ last' = Seen(op, "fetch_and", ty, 0, "unit")
            /\ UNCHANGED panicked
    /\ UNCHANGED <<debug, inflight>>

\* release() by the holder of a shared grant (a borrow() that returned true).
Release(ty) ==
    /\ held[Key("sh", ty)] > 0
    /\ ReleaseStep("release", ty)
    /\ Remove(Key("sh", ty))
    /\ UNCHANGED unheld

\* release_mut() by the holder of the exclusive grant.
ReleaseMut(ty) ==
    /\ held[Key("ex", ty)] > 0
    /\ ReleaseMutStep("release_mut", ty)
    /\ Remove(Key("ex", ty))
    /\ UNCHANGED unheld

\* release() by a caller that holds no shared grant: no grant is given up.
ReleaseUnheld(ty) ==
    /\ unheld < MaxUnheld
    /\ ReleaseStep("release_unheld", ty)
    /\ unheld' = unheld + 1
    /\ UNCHANGED held

\* release_mut() by a caller that holds no exclusive grant.
ReleaseMutUnheld(ty) ==
    /\ unheld < MaxUnheld
    /\ ReleaseMutStep("release_mut_unheld", ty)
    /\ unheld' = unheld + 1
    /\ UNCHANGED held

\* Clients of one group's counters that release only what they were granted.
Next ==
    \/ \E ty \in ArchTypeSet : Borrow(ty)
    \/ \E ty \in ArchTypeSet : BorrowUndo(ty)
    \/ \E ty \in ArchTypeSet : BorrowMut(ty)
    \/ \E ty \in ArchTypeSet : Release(ty)
    \/ \E ty \in ArchTypeSet : ReleaseMut(ty)

Spec == Init /\ [][Next]_vars

\* Clients that also release grants they do not hold.
NextMisuse ==
    \/ Next
    \/ \E ty \in ArchTypeSet : ReleaseUnheld(ty)
    \/ \E ty \in ArchTypeSet : ReleaseMutUnheld(ty)

SpecMisuse == Init /\ [][NextMisuse]_vars

(***************************************************************************)
(* Ref, RefMut and EntityRef                                               *)
(***************************************************************************)

\* Calls of get() inside borrow(): each ends with a Ref built without a grant.
InFlightGets == SumOver(inflight, {c \in Calls : c.op = "get"})

\* What Ref::new / RefMut::new do once the group's acquire is over with the
\* outcome granted: build the handle of the given kind and return it. A handle
\* built on a refused grant will release a grant that was never held.
HandleBuilt(op, step, kind, ty, slot, granted) ==
    IF ~archetype_acquire_returns(granted)
    THEN /\ last' = Seen(op, step, ty, slot, "panic")
         /\ panicked' = panicked + 1
         /\ UNCHANGED <<held, unheld>>
    ELSE IF Ref_new_ok(granted)
    THEN /\ Add(Key(kind, ty))
         /\ unheld' = IF granted THEN unheld ELSE unheld + 1
         /\ last' = Seen(op, step, ty, slot, "Some")
         /\ UNCHANGED panicked
    ELSE /\ last' = Seen(op, step, ty, slot, "None")
         /\ UNCHANGED <<panicked, held, unheld>>

\* get() / get_mut() looking past the missing archetype of a view:
EntityRef_get_none_column_only(v, ty) == ~get_base_some(ty)

\* EntityRef::get / get_mut: None from `self.archetype?` for a view without
\* archetype, and from `.ok()?` when Ref::new / RefMut::new found no column
\* (get_base::<T>() was None, MissingComponent); no borrow is made then.
EntityRef_get_none(v, ty) == ~v.arch \/ ~get_base_some(ty)

\* EntityRef::get::<T>(): Some(Ref::new(self.archetype?, self.index).ok()?), up
\* to and including the fetch_add of the borrow() made for it.
Get(v, ty) ==
    /\ Idle > 0
    /\ IF EntityRef_get_none(v, ty)
       THEN /\ last' = Seen("get", "none", ty, v.index, "None")
            /\ UNCHANGED <<word, inflight, panicked, held, unheld>>
       ELSE /\ HeldTotal + InFlightAll < MaxHandles
            /\ LET value == borrow_value(word[ty]) IN
                /\ word' = [word EXCEPT ![ty] = value]
                /\ IF borrow_wrapped(value)
                   THEN /\ panicked' = panicked + 1
                        /\ last' = Seen("get", "fetch_add", ty, v.index, "panic")
                        /\ UNCHANGED <<inflight, held, unheld>>
                   ELSE IF borrow_conflict(value)
                   THEN /\ unheld + InFlightGets < MaxUnheld
                        /\ inflight' = [inflight EXCEPT ![Call(ty, "get", v.index)] = @ + 1]
                        /\ last' = Seen("get", "fetch_add", ty, v.index, "pending")
                        /\ UNCHANGED <<panicked, held, unheld>>
                   ELSE /\ HandleBuilt("get", "fetch_add", "sh", ty, v.index, TRUE)
                        /\ UNCHANGED inflight
    /\ UNCHANGED debug

\* borrow() made into a loop: after the fetch_sub the call tries again and is
\* over only once no conflict is seen.
GetUndo_retrying(c) ==
    /\ c.op = "get"
    /\ inflight[c] > 0
    /\ IF borrow_conflict(word[c.ty])
       THEN /\ last' = Seen("get", "fetch_sub", c.ty, c.slot, "pending")
            /\ UNCHANGED <<word, inflight, panicked, held, unheld>>
       ELSE /\ inflight' = [inflight EXCEPT ![c] = @ - 1]
            /\ HandleBuilt("get", "fetch_add", "sh", c.ty, c.slot, TRUE)
            /\ UNCHANGED word
    /\ UNCHANGED debug

\* get(), the rest of a borrow() that met a conflict: its fetch_sub, false
\* handed back to Ref::new, which goes on to build the Ref.
GetUndo(c) ==
    /\ c.op = "get"
    /\ inflight[c] > 0
    /\ word' = [word EXCEPT ![c.ty] = wrapping_sub(@, 1)]
    /\ inflight' = [inflight EXCEPT ![c] = @ - 1]
    /\ HandleBuilt("get", "fetch_sub", "sh", c.ty, c.slot, FALSE)
    /\ UNCHANGED debug

\* EntityRef::get_mut::<T>(): Some(RefMut::new(self.archetype?, self.index).ok()?)
GetMut(v, ty) ==
    /\ Idle > 0
    /\ IF EntityRef_get_none(v, ty)
       THEN /\ last' = Seen("get_mut", "none", ty, v.index, "None")
            /\ UNCHANGED <<word, panicked, held, unheld>>
       ELSE /\ HeldTotal + InFlightAll < MaxHandles
            /\ borrow_mut_ok(word[ty]) \/ unheld + InFlightGets < MaxUnheld
            /\ word' = [word EXCEPT ![ty] = borrow_mut_word(@)]
            /\ HandleBuilt("get_mut", "cas", "ex", ty, v.index, borrow_mut_ok(word[ty]))
    /\ UNCHANGED <<debug, inflight>>

\* #[derive(Clone)] on Ref: the copy holds the same archetype and target; no
\* method of the counter is called.
CloneRef(ty) ==
    /\ Idle > 0
    /\ held[Key("sh", ty)] > 0
    /\ HeldTotal + InFlightAll < MaxHandles
    /\ unheld + InFlightGets < MaxUnheld
    /\ Add(Key("sh", ty))
    /\ unheld' = unheld + 1
    /\ last' = Seen("clone", "none", ty, 0, "unit")
    /\ UNCHANGED <<debug, word, inflight, panicked>>

\* Drop for Ref: self.archetype.release::<T>()
DropRef(ty) ==
    /\ held[Key("sh", ty)] > 0
    /\ ReleaseStep("drop_ref", ty)
    /\ Remove(Key("sh", ty))
    /\ UNCHANGED unheld

\* Drop for RefMut: self.archetype.release_mut::<T>()
DropRefMut(ty) ==
    /\ held[Key("ex", ty)] > 0
    /\ ReleaseMutStep("drop_refmut", ty)
    /\ Remove(Key("ex", ty))
    /\ UNCHANGED unheld

\* component_types() walking the types from the last to the first:
component_types_reversed(v) ==
    IF v.arch
    THEN [i \in 1 .. Len(ArchTypes) |-> id(ArchTypes[Len(ArchTypes) + 1 - i])]
    ELSE <<>>

\* EntityRef::component_types(): the ids of arch.types() in order, nothing for
\* a view without archetype.
component_types(v) ==
    IF v.arch THEN [i \in 1 .. Len(ArchTypes) |-> id(ArchTypes[i])] ELSE <<>>

ComponentTypes(v) ==
    /\ Idle > 0
    /\ last' = [Seen("component_types", "none", "-", v.index, "iter")
                    EXCEPT !.ids = component_types(v)]
    /\ UNCHANGED <<debug, word, inflight, panicked, held, unheld>>

\* Threads working through views of one group and the handles got from them.
NextHandles ==
    \/ \E v \in Views, ty \in ReqTypes : Get(v, ty)
    \/ \E c \in Calls : GetUndo(c)
    \/ \E v \in Views, ty \in ReqTypes : GetMut(v, ty)
    \/ \E ty \in ArchTypeSet : CloneRef(ty)
    \/ \E ty \in ArchTypeSet : DropRef(ty)
    \/ \E ty \in ArchTypeSet : DropRefMut(ty)
    \/ \E v \in Views : ComponentTypes(v)

SpecHandles == Init /\ [][NextHandles]_vars

\* The views into the group.
GroupViews == {v \in Views : v.arch}

\* Threads making the calls that reach a counter, through the views that have
\* the archetype and for the types it has a column of, and dropping the
\* handles they got.
NextViews ==
    \/ \E v \in GroupViews, ty \in ArchTypeSet : Get(v, ty)
    \/ \E c \in Calls : GetUndo(c)
    \/ \E v \in GroupViews, ty \in ArchTypeSet : GetMut(v, ty)
    \/ \E ty \in ArchTypeSet : DropRef(ty)
    \/ \E ty \in ArchTypeSet : DropRefMut(ty)

SpecViews == Init /\ [][NextViews]_vars

\* The same, with every thread that is inside a call scheduled again: a
\* borrow() that has made its fetch_add gets to make its fetch_sub. The other
\* calls are one atomic operation and need no scheduling to finish.
SpecViewsFair ==
    Init /\ [][NextViews]_vars /\ \A c \in Calls : WF_vars(GetUndo(c))

(***************************************************************************)
(* Properties                                                              *)
(***************************************************************************)

\* The largest shared count the bits below UNIQUE_BIT can hold.
CountCapacity == UNIQUE_BIT - 1

\* C1: with releases made only for grants obtained, no counter ever has two
\* exclusive grants outstanding, nor an exclusive grant together with a shared one.
C1_MutualExclusion ==
    \A ty \in ArchTypeSet :
        /\ held[Key("ex", ty)] <= 1
        /\ held[Key("ex", ty)] = 1 => held[Key("sh", ty)] = 0

\* C1 witness: an exclusive grant is outstanding while a borrow() on the same
\* counter has incremented the word and a borrow_mut() on it was just refused.
C1_Witness ==
    /\ last.op = "borrow_mut" /\ last.ret = "false" /\ last.exOut = 1
    /\ held[Key("ex", last.ty)] = 1 /\ InFlight(last.ty) > 0

\* C5: a borrow() whose fetch_add finds no exclusive grant outstanding returns
\* true, as long as the callers holding or acquiring a shared grant, this one
\* included, do not exceed the capacity of the count bits.
C5_SharedAcquireSucceeds ==
    (/\ last.op = "borrow" /\ last.step = "fetch_add"
     /\ last.exOut = 0
     /\ last.shOut + last.fl + 1 <= CountCapacity)
        => last.ret = "true"

\* C5 witness: a borrow() returned true on a counter that had a shared grant
\* outstanding and, left from a released exclusive grant, a refused borrow()
\* still in flight.
C5_Witness ==
    /\ last.op = "borrow" /\ last.ret = "true"
    /\ last.exOut = 0 /\ last.shOut >= 1 /\ last.fl >= 1

\* C6: borrow_mut() called while a shared grant is outstanding returns false
\* and leaves the counter word as it was.
C6_ExclusiveRefusedKeepsWord ==
    (last.op = "borrow_mut" /\ last.shOut > 0)
        => (last.ret = "false" /\ word[last.ty] = last.pre)

\* C6 witness: a borrow_mut() was refused with two shared grants outstanding.
C6_Witness ==
    /\ last.op = "borrow_mut" /\ last.ret = "false"
    /\ last.shOut = 2 /\ word[last.ty] = 2

\* C7: on a zero counter borrow_mut() returns true, never for two callers at
\* once; while that grant is outstanding every borrow_mut() returns false and
\* every borrow() takes the conflicting path, which returns false.
C7_ExclusiveOnceOthersFail ==
    /\ \A ty \in ArchTypeSet : held[Key("ex", ty)] <= 1
    /\ (last.op = "borrow_mut" /\ last.pre = 0) => last.ret = "true"
    /\ (last.op = "borrow_mut" /\ last.exOut = 1) => last.ret = "false"
    /\ (last.op = "borrow" /\ last.step = "fetch_add" /\ last.exOut = 1)
            => last.ret = "pending"
    /\ (last.op = "borrow" /\ last.step = "fetch_sub") => last.ret = "false"

\* C7 witness: during one exclusive hold a borrow() was refused (it returned
\* false with the grant still outstanding) after another borrow() had started.
C7_Witness ==
    /\ last.op = "borrow" /\ last.step = "fetch_sub" /\ last.ret = "false"
    /\ last.exOut = 1 /\ last.fl = 2

\* C8 as claimed: the counter word is zero right after the holder's release_mut().
C8_ZeroRightAfterReleaseMut ==
    last.op = "release_mut" => word[last.ty] = 0

\* C8 amended: right after the holder's release_mut() the exclusive flag is
\* clear and the word counts exactly the borrow() calls that incremented it
\* during the hold and have not yet decremented it back; it is zero only when
\* there is none.
C8_ReleaseMutLeavesInFlight ==
    last.op = "release_mut"
        => (/\ ~HasUniqueBit(word[last.ty])
            /\ word[last.ty] = last.fl
            /\ last.fl = InFlight(last.ty))

\* C8 witness: release_mut() by the holder with a refused borrow() in flight.
C8_Witness ==
    /\ last.op = "release_mut" /\ last.ret = "unit"
    /\ last.fl >= 1 /\ word[last.ty] = last.fl

\* C9 as claimed: borrow() on a word whose count bits are all set (flag clear)
\* panics.
C9_SaturatedCountAborts ==
    (last.op = "borrow" /\ last.step = "fetch_add" /\ last.pre = CountCapacity)
        => last.ret = "panic"

\* C10 as claimed: with the debug assertions on, every release by a caller
\* holding no grant of that kind fails the assertion of that very call.
C10_UnheldReleaseCaught ==
    (debug /\ last.op \in {"release_unheld", "release_mut_unheld"})
        => last.ret = "panic"

\* C10 amended: with the debug assertions on, the first release by a caller
\* holding no grant is caught by its own call when nobody holds a grant of the
\* released kind on that counter: release() when an exclusive grant is
\* outstanding, or when no shared grant is outstanding and no borrow() in
\* flight; release_mut() when no exclusive grant is outstanding (the count
\* below overflow). When somebody else holds a grant of the released kind the
\* call passes its assertions.
C10_UnheldReleaseCaughtWhenNoneHeld ==
    (debug /\ unheld = 1)
        => /\ (/\ last.op = "release_unheld"
               /\ \/ last.exOut = 1
                  \/ last.shOut = 0 /\ last.fl = 0)
                => last.ret = "panic"
           /\ (/\ last.op = "release_mut_unheld"
               /\ last.exOut = 0
               /\ last.shOut + last.fl < UNIQUE_BIT)
                => last.ret = "panic"
           /\ (/\ last.op = "release_unheld"
               /\ last.exOut = 0 /\ last.shOut >= 1
               /\ last.shOut + last.fl < UNIQUE_BIT)
                => last.ret = "unit"
           /\ (last.op = "release_mut_unheld" /\ last.exOut = 1)
                => last.ret = "unit"

\* C10 witness: a release() by a caller holding nothing, against an exclusive
\* grant, panicked.
C10_Witness ==
    /\ debug /\ unheld = 1
    /\ last.op = "release_unheld" /\ last.exOut = 1 /\ last.ret = "panic"

\* C2: get_mut() on a resident type returns Some(RefMut) also when a Ref of
\* that type is alive, and get() returns Some(Ref) also when a RefMut is alive
\* (the count not wrapping): both conflicting handles are then alive at once.
C2_HandleBuiltWithoutGrant ==
    /\ (last.op = "get_mut" /\ last.step = "cas" /\ last.shOut > 0)
            => /\ last.ret = "Some"
               /\ held[Key("sh", last.ty)] > 0 /\ held[Key("ex", last.ty)] > 0
    /\ (/\ last.op = "get" /\ last.step \in {"fetch_add", "fetch_sub"}
        /\ last.ret \notin {"pending", "panic"} /\ last.exOut > 0)
            => /\ last.ret = "Some"
               /\ held[Key("sh", last.ty)] > 0 /\ held[Key("ex", last.ty)] > 0

\* C2 witness: get_mut() met a counter word of 1, held by a live Ref, and
\* returned Some: a Ref and a RefMut of the type are alive.
C2_Witness ==
    /\ last.op = "get_mut" /\ last.ret = "Some"
    /\ last.shOut = 1 /\ last.pre = 1
    /\ held[Key("sh", last.ty)] = 1 /\ held[Key("ex", last.ty)] = 1

\* C3 as claimed: get() panics when a RefMut of the type is alive, get_mut()
\* panics when a Ref or RefMut of the type is alive.
C3_ConflictingGetPanics ==
    /\ (/\ last.op = "get" /\ last.step \in {"fetch_add", "fetch_sub"}
        /\ last.ret # "pending" /\ last.exOut > 0)
            => last.ret = "panic"
    /\ (last.op = "get_mut" /\ last.step = "cas" /\ (last.shOut > 0 \/ last.exOut > 0))
            => last.ret = "panic"

\* C4 as claimed: cloning a Ref increments the counter word by one.
C4_CloneIncrementsCount ==
    last.op = "clone" => word[last.ty] = wrapping_add(last.pre, 1)

\* The view of the group, or the empty view, that has the given slot index.
ViewAt(slot) == CHOOSE v \in Views : v.index = slot

\* C11: a Ref or RefMut made on an obtained grant and dropped by the very next
\* step, nothing else happening in between, leaves the counter of its type at
\* the value it had before the handle was made, and leaves every other counter
\* at its value too: all counter words are what they were before the get() or
\* get_mut().
C11_MakeThenDropRestores ==
    /\ (last.op = "drop_ref" /\ last.made.kind = "sh")
          => last.ret = "unit" /\ word = last.made.words
    /\ (last.op = "drop_refmut" /\ last.made.kind = "ex")
          => last.ret = "unit" /\ word = last.made.words

\* A Ref was made on a grant beside another live Ref and dropped at once: the
\* count is back at the one of the other Ref.
C11_Witness ==
    /\ last.op = "drop_ref" /\ last.made.kind = "sh" /\ last.ret = "unit"
    /\ last.made.words[last.ty] = 1
    /\ last.pre = 2
    /\ word[last.ty] = 1

\* C12: get() and get_mut() on a view without archetype, or for a type the
\* archetype has no column of, return None without any acquire or release:
\* no atomic operation is made and every counter word is unchanged.
C12_NoneTouchesNoCounter ==
    (/\ last.op \in {"get", "get_mut"}
     /\ ~ViewAt(last.slot).arch \/ last.ty \notin ArchTypeSet)
        => /\ last.ret = "None"
           /\ last.step = "none"
           /\ word = last.words

\* get_mut() for a type without column returned None while a Ref on another
\* type is live, whose count stays.
C12_Witness ==
    /\ last.op = "get_mut" /\ last.ty = "V" /\ last.ret = "None"
    /\ ViewAt(last.slot).arch
    /\ word["A"] = 1 /\ last.words["A"] = 1

\* C13: a grant is per group and type, not per slot. A get() or get_mut()
\* works on the counter of its type only, whatever the slot of its view, and
\* its outcome is the same whatever the slots: right after a Ref was made on a
\* grant through one slot, a get() of the same type through any slot is granted
\* as well (below the count capacity) and both are counted in the one word;
\* right after a RefMut was made on a grant through one slot, the counter
\* refuses a get() and a get_mut() of the same type through any slot.
C13_GrantPerTypeNotSlot ==
    /\ (last.op \in {"get", "get_mut"} /\ last.ty \in ArchTypeSet)
          => \A ty \in ArchTypeSet \ {last.ty} : word[ty] = last.words[ty]
    /\ (/\ last.op = "get" /\ last.step = "fetch_add"
        /\ last.made.kind = "sh"
        /\ last.pre < CountCapacity)
          => /\ MadeOnGrant(last)
             /\ word[last.ty] = last.made.words[last.ty] + 2
    /\ (last.op = "get" /\ last.step = "fetch_add" /\ last.made.kind = "ex")
          => /\ ~MadeOnGrant(last)
             /\ last.ret = "pending"
    /\ (last.op = "get_mut" /\ last.made.kind = "ex")
          => /\ ~MadeOnGrant(last)
             /\ word[last.ty] = last.pre

\* A Ref was made on a grant through slot 2, then one through slot 5 of the
\* same type: both granted, the word counts 2.
C13_Witness ==
    /\ last.op = "get" /\ last.slot = 5 /\ MadeOnGrant(last)
    /\ last.made.kind = "sh" /\ last.made.slot = 2
    /\ word[last.ty] = 2

\* C14: every call is over after a bounded number of atomic operations of its
\* own, without loop or wait. The only call not over with its first atomic
\* operation is a borrow() that met a conflict after its fetch_add; its second
\* operation, the fetch_sub, ends it with the refusal, so a refused acquire is
\* one attempt. With the threads scheduled fairly, whenever calls are in
\* flight one of them gets to that fetch_sub and returns.
C14_EveryCallReturns ==
    /\ [](last.ret = "pending"
            => last.op \in {"borrow", "get"} /\ last.step = "fetch_add")
    /\ [](last.op \in {"borrow", "get"} /\ last.step = "fetch_sub"
            => last.ret \in {"false", "Some"})
    /\ (InFlightAll > 0)
          ~> (/\ last.op \in {"borrow", "get"}
              /\ last.step = "fetch_sub" /\ last.ret # "pending")

\* A get() refused by the counter has returned after its fetch_add and its
\* fetch_sub, and no call is in flight any more.
C14_Witness ==
    /\ last.op = "get" /\ last.step = "fetch_sub" /\ last.ret = "Some"
    /\ InFlightAll = 0
    /\ unheld > 0

\* C15: component_types() on a view without archetype yields the empty
\* sequence, and on a view of the archetype with the types A, B registered in
\* this order it yields exactly the id of A, then the id of B, on every call;
\* the call touches no counter: every counter word is unchanged.
C15_ComponentTypesInOrder ==
    last.op = "component_types"
        => /\ last.ids = IF ViewAt(last.slot).arch
                         THEN <<id("A"), id("B")>>
                         ELSE <<>>
           /\ last.step = "none"
           /\ word = last.words

\* component_types() on a view of the archetype yielded the two ids in order
\* while a Ref on A is live, whose count stays.
C15_Witness ==
    /\ last.op = "component_types"
    /\ ViewAt(last.slot).arch
    /\ last.ids = <<id("A"), id("B")>>
    /\ word["A"] = 1 /\ last.words["A"] = 1

\* The shared count held in a counter word: the bits below the exclusive flag.
CountBits(w) == w % UNIQUE_BIT

\* C16 as stated: with balanced releases, in every state between two atomic
\* operations, no counter word has the exclusive flag set and a nonzero shared
\* count at once.
C16_FlagAndCountNeverBoth ==
    \A ty \in ArchTypeSet : ~(HasUniqueBit(word[ty]) /\ CountBits(word[ty]) # 0)

\* C16 amended: with balanced releases, a counter word has the exclusive flag
\* and a nonzero count at once only while some borrow() is between its
\* fetch_add and its fetch_sub; and while an exclusive grant is held the flag
\* is set and the count is the number of those calls in flight, none of them a
\* grant.
C16_FlagAndCountOnlyInFlight ==
    \A ty \in ArchTypeSet :
        /\ InFlight(ty) = 0
              => ~(HasUniqueBit(word[ty]) /\ CountBits(word[ty]) # 0)
        /\ held[Key("ex", ty)] > 0
              => /\ HasUniqueBit(word[ty])
                 /\ CountBits(word[ty]) = InFlight(ty)
                 /\ held[Key("sh", ty)] = 0

\* An exclusive grant is held and one refused borrow() has not yet made its
\* fetch_sub: flag and count 1 in the word.
C16_Witness ==
    \E ty \in ArchTypeSet :
        /\ held[Key("ex", ty)] = 1
        /\ InFlight(ty) = 1
        /\ word[ty] = UNIQUE_BIT + 1
        /\ last.op = "borrow" /\ last.ret = "pending"

\* C17: a refused borrow() has no net effect. A borrow() that finds the
\* exclusive flag in the value after its fetch_add does not return a grant;
\* its fetch_sub takes exactly one off the word and the call returns false; and
\* right after that the word is what the outstanding grants and the calls of
\* the other threads still in flight account for, with nothing left of this
\* call, whatever was interleaved with it.
C17_RefusedBorrowNoNetEffect ==
    /\ (/\ last.op = "borrow" /\ last.step = "fetch_add"
        /\ HasUniqueBit(wrapping_add(last.pre, 1)))
          => /\ last.ret = "pending"
             /\ held[Key("sh", last.ty)] = last.shOut
    /\ (last.op = "borrow" /\ last.step = "fetch_sub")
          => /\ last.ret = "false"
             /\ word[last.ty] = (last.pre + WordMod - 1) % WordMod
             /\ word[last.ty] = UNIQUE_BIT * held[Key("ex", last.ty)]
                                  + held[Key("sh", last.ty)] + InFlight(last.ty)

\* A borrow() refused during an exclusive hold has returned false with the
\* grant still held: the word is the flag alone again.
C17_Witness ==
    /\ last.op = "borrow" /\ last.step = "fetch_sub" /\ last.ret = "false"
    /\ last.pre = UNIQUE_BIT + 1
    /\ held[Key("ex", last.ty)] = 1
    /\ word[last.ty] = UNIQUE_BIT

\* C18 as stated: whenever borrow_mut() returns false, a shared or an
\* exclusive grant is outstanding on the counter at its compare_exchange.
C18_ExclusiveFailsOnlyOnGrant ==
    (last.op = "borrow_mut" /\ last.ret = "false")
        => last.shOut + last.exOut > 0

\* C18 amended: whenever borrow_mut() returns false, at its compare_exchange a
\* grant is outstanding on the counter or a borrow() on it is between its
\* fetch_add and its fetch_sub: the word read is not 0, and it is what these
\* grants and calls in flight add up to.
C18_ExclusiveFailsOnGrantOrInFlight ==
    (last.op = "borrow_mut" /\ last.ret = "false")
        => /\ last.shOut + last.exOut + last.fl > 0
           /\ last.pre # 0
           /\ last.pre = UNIQUE_BIT * last.exOut + last.shOut + last.fl

\* borrow_mut() returned false with no grant outstanding: the word held the
\* increment of a refused borrow() that had not yet made its fetch_sub.
C18_Witness ==
    /\ last.op = "borrow_mut" /\ last.ret = "false"
    /\ last.shOut = 0 /\ last.exOut = 0
    /\ last.fl = 1 /\ last.pre = 1

\* What stands in the counter of a type by the books: the flag for an
\* exclusive grant outstanding, one for each shared grant outstanding and one
\* for each borrow() between its fetch_add and its fetch_sub.
Accounted(ty) ==
    UNIQUE_BIT * held[Key("ex", ty)] + held[Key("sh", ty)] + InFlight(ty)

\* C19: with balanced releases and below overflow, every counter word is the
\* flag times the exclusive grants outstanding (0 or 1), plus the shared grants
\* outstanding, plus the borrow() calls that have incremented the word and
\* neither returned true nor decremented yet; so the word is 0 exactly when no
\* grant is outstanding and no such call is in flight.
C19_WordAccountsGrantsAndInFlight ==
    \A ty \in ArchTypeSet :
        Accounted(ty) < WordMod
            => /\ held[Key("ex", ty)] \in {0, 1}
               /\ word[ty] = Accounted(ty)
               /\ word[ty] = 0
                    <=> /\ held[Key("ex", ty)] = 0
                        /\ held[Key("sh", ty)] = 0
                        /\ InFlight(ty) = 0

\* An exclusive grant is held and two refused borrow() calls are in flight:
\* the word is the flag plus 2.
C19_Witness ==
    \E ty \in ArchTypeSet :
        /\ held[Key("ex", ty)] = 1
        /\ InFlight(ty) = 2
        /\ word[ty] = UNIQUE_BIT + 2

\* C20 as stated: in a production build (no debug assertions), after any
\* get() / get_mut() calls and drops on the views of the group, refused ones
\* among them, once every handle is dropped and no call is in flight each
\* counter word is 0 again, so that a later get_mut() or get() obtains its
\* grant.
C20_QuiescentCountersZero ==
    (~debug /\ HeldTotal = 0 /\ InFlightAll = 0)
        => \A ty \in ArchTypeSet : word[ty] = 0
====
